---- MODULE Spec2Model ----
(***************************************************************************)
(* A model of the Throttle decorator of python_mpd/utils.py.               *)
(*                                                                         *)
(* One Throttle definition (min_time, limit_no_throttle) decorates one     *)
(* method of a class; when limit_no_throttle is given, __call__ first      *)
(* wraps the method with a second Throttle (line 45), so the wrapped       *)
(* operation is wrapper("P") -> wrapper("S") -> method.  Threads call the  *)
(* wrapped operation on owning entities (the method's receiver, args[0]).  *)
(* Every statement of wrapper is one step of the calling thread; steps of  *)
(* different threads interleave freely (the interpreter may switch threads *)
(* between any two statements) and the clock may advance between any two   *)
(* steps.  Each thread keeps a stack of frames: the outer wrapper, the     *)
(* nested wrapper, the running method.                                     *)
(***************************************************************************)
EXTENDS Integers, Sequences, FiniteSets, TLC

\* ---------------------------------------------------------------- bounds
MaxTime == 2
MaxCalls == 2

\* ------------------------------------------------------------ parameters
Threads == {1, 2}
Hosts == {1, 2}
\* "P": the Throttle applied by the user; "S": Throttle(limit_no_throttle).
Defs == {"P", "S"}
\* Python's None, for an optional timedelta or datetime.
NoneT == -1
MinTimes == {1, 2}
Limits == {NoneT, 1, 2}

VARIABLES
  now,                \* datetime.now(), in clock units
  min_time,           \* self.min_time of the definition "P"
  limit_no_throttle,  \* self.limit_no_throttle of "P" (NoneT: not given)
  is_async,           \* asyncio.iscoroutinefunction(method)
  has_throttle,       \* has_throttle[h]: hasattr(host, '_throttle')
  registry,           \* registry[h][d]: host._throttle[id(d)], 0 when the key is absent
  heap,               \* heap[h][d]: the [Lock, last] lists ever created for (h, d)
  stack,              \* stack[t]: the frames of thread t, innermost last
  call,               \* call[t]: what is known of t's current or last call
  ncalls,             \* calls made so far
  hist                \* hist[h]: history of the delegate on entity h

vars == <<now, min_time, limit_no_throttle, is_async, has_throttle, registry,
          heap, stack, call, ncalls, hist>>

config == <<min_time, limit_no_throttle, is_async>>

\* ------------------------------------------------------------- outcomes
\* What a frame hands to its caller.
NoRes == [tag |-> "none", v |-> 0]
\* throttled_value() of a synchronous method, or a method's return value None.
RetNone == [tag |-> "ret", v |-> 0]
\* The method's result, which is not None.
RetVal == [tag |-> "ret", v |-> 1]
\* The stand-in coroutine of an async method, which returns None when awaited.
CoroThrottled == [tag |-> "coro", v |-> 0]
\* The coroutine object method(*args) returns when method is async.
CoroReal == [tag |-> "coro", v |-> 1]
\* The method raised.
RaiseMethod == [tag |-> "raise", v |-> 1]
\* host._throttle[id(self)] raised KeyError.
RaiseKeyError == [tag |-> "raise", v |-> 2]

\* throttled_value(): a coroutine when the method is async, else None.
throttled_value == IF is_async THEN CoroThrottled ELSE RetNone

\* self.min_time of the Throttle d.
MinTimeOf(d) == IF d = "P" THEN min_time ELSE limit_no_throttle

\* Lines 60-61: the attributes of the function `wrapper`: those @wraps gives
\* it. The statements of lines 67-95 assign host._throttle and the items of
\* the entry and nothing else, and the host of a method is its receiver, so
\* this set is the same in every state.
WrapperAttrs ==
  {"__module__", "__name__", "__qualname__", "__doc__", "__wrapped__"}

\* ---------------------------------------------------------------- frames
WrapperFrame(d, nt) ==
  [kind |-> "wrapper", d |-> d, pc |-> "L74", entry |-> 0, nt |-> nt,
   res |-> NoRes]

\* The method's body in progress; res is what it will return.
BodyFrame(kind) ==
  [kind |-> kind, d |-> "P", pc |-> "body", entry |-> 0, nt |-> FALSE,
   res |-> RetVal]

Top(t) == stack[t][Len(stack[t])]
Rest(t) == SubSeq(stack[t], 1, Len(stack[t]) - 1)
Busy(t) == Len(stack[t]) > 0
At(t, pc) == Busy(t) /\ Top(t).kind = "wrapper" /\ Top(t).pc = pc

\* Mutant: every call throttled against one owner, as a plain function is.
HostShared(args0) == 1

\* Lines 67-72: the owning entity of a call. A method of a class has no
\* __self__ and a '.' in its qualname, so host = args[0].
HostOf(args0) == args0

Host(t) == HostOf(call[t].h)

\* The [Lock, last] list the top frame of t bound at line 79.
Entry(t) == heap[Host(t)][Top(t).d][Top(t).entry]

\* Of the calls on an entity that have returned: lastRun, the start of the
\* latest that called the method; lastOk, the start of the latest whose
\* method returned, and lastOkNt, whether that one was made with
\* no_throttle=True; lastEnd, when the latest returned.
NoHist ==
  [lastRun |-> NoneT, lastOk |-> NoneT, lastOkNt |-> FALSE, lastEnd |-> NoneT]

\* h, nt: the call's arguments; start: when it was made; done, out: whether
\* it has returned and what; ran: it called the method; ok: the method
\* returned; acquired: it acquired the lock of "P", of the list `entry`,
\* whose last was `before`; gate[d]: what the timestamp of the entry of d
\* was when the call read it under the lock: absent ("fresh"), more than
\* the interval of d ago ("open") or not ("shut"); prev: the history of the
\* entity when the call was made; innerNt, inner: the no_throttle of a call
\* of the wrapped operation made by the method itself, and what that call
\* handed back to the method.
NoCall ==
  [h |-> 1, nt |-> FALSE, start |-> 0, done |-> TRUE, ran |-> FALSE,
   ok |-> FALSE, acquired |-> FALSE, out |-> NoRes,
   innerNt |-> FALSE, inner |-> NoRes,
   gate |-> [d \in Defs |-> "unseen"], before |-> NoneT, entry |-> 0,
   prev |-> NoHist]

InitState ==
  /\ now = 0
  /\ has_throttle = [h \in Hosts |-> FALSE]
  /\ registry = [h \in Hosts |-> [d \in Defs |-> 0]]
  /\ heap = [h \in Hosts |-> [d \in Defs |-> <<>>]]
  /\ stack = [t \in Threads |-> <<>>]
  /\ call = [t \in Threads |-> NoCall]
  /\ ncalls = 0
  /\ hist = [h \in Hosts |-> NoHist]

\* Lines 26-30: Throttle(min_time, limit_no_throttle) applied to a method,
\* synchronous or async, before any call.
InitSeq ==
  /\ min_time \in MinTimes
  /\ limit_no_throttle \in Limits
  /\ is_async \in BOOLEAN
  /\ InitState

\* The same with the shortest intervals.
Init ==
  /\ min_time = 1
  /\ limit_no_throttle \in {NoneT, 1}
  /\ is_async \in BOOLEAN
  /\ InitState

\* ------------------------------------------------------- frame plumbing
SetTop(t, f) == [stack EXCEPT ![t] = Append(Rest(t), f)]

\* The stack of t after its top frame hands `out` to whoever called it:
\* a wrapper waiting at line 89 resumes at line 90, or at the finally of
\* line 95 when `out` is an exception; a method that called the wrapped
\* operation itself goes on with its body; the caller of the wrapped
\* operation awaits a coroutine it is given, which runs the method's body.
StackAfterReturn(t, out) ==
  LET rest == Rest(t) IN
  IF rest = <<>>
  THEN IF out = CoroReal
       THEN <<BodyFrame("coro")>>
       ELSE <<>>
  ELSE LET parent == rest[Len(rest)] IN
       [rest EXCEPT ![Len(rest)] =
          IF parent.kind = "wrapper"
          THEN [parent EXCEPT !.pc = IF out.tag = "raise" THEN "L95" ELSE "L90",
                              !.res = out]
          ELSE [parent EXCEPT !.pc = "back"]]

\* TRUE when `out`, handed over by the top frame of t, ends t's call.
EndsCall(t, out) == Len(stack[t]) = 1 /\ out # CoroReal

\* What the caller finally holds: awaiting the stand-in coroutine gives None.
Seen(out) == IF out = CoroThrottled THEN RetNone ELSE out

\* The record of t's call c after its top frame handed over `out`.
CallAfterReturn(t, c, out) ==
  IF EndsCall(t, out)
  THEN [c EXCEPT !.done = TRUE, !.out = Seen(out)]
  ELSE IF Rest(t) # <<>> /\ Rest(t)[Len(Rest(t))].kind = "method"
       THEN [c EXCEPT !.inner = out]
       ELSE c

\* The history once the call c of t has returned.
HistAfterReturn(t, c, out) ==
  IF EndsCall(t, out)
  THEN [hist EXCEPT ![Host(t)] =
          [lastRun |-> IF c.ran THEN c.start ELSE @.lastRun,
           lastOk |-> IF c.ok THEN c.start ELSE @.lastOk,
           lastOkNt |-> IF c.ok THEN c.nt ELSE @.lastOkNt,
           lastEnd |-> now]]
  ELSE hist

\* The top frame of t returns or raises `out`; c is the call record as the
\* step has already changed it.
Return(t, c, out) ==
  /\ stack' = [stack EXCEPT ![t] = StackAfterReturn(t, out)]
  /\ call' = [call EXCEPT ![t] = CallAfterReturn(t, c, out)]
  /\ hist' = HistAfterReturn(t, c, out)

\* ---------------------------------------------------------------- steps
\* A thread calls the wrapped operation on entity h, with or without
\* no_throttle=True.
DoCall(t, h, nt) ==
  /\ ~Busy(t)
  /\ stack' = [stack EXCEPT ![t] = <<WrapperFrame("P", nt)>>]
  /\ ncalls' = ncalls + 1
  /\ call' = [call EXCEPT ![t] =
       [NoCall EXCEPT !.h = h, !.nt = nt, !.start = now, !.done = FALSE,
                      !.prev = hist[HostOf(h)]]]
  /\ UNCHANGED <<now, config, has_throttle, registry, heap, hist>>

Call(t, h, nt) == ncalls < MaxCalls /\ DoCall(t, h, nt)

\* Line 74: if not hasattr(host, '_throttle')
L74(t) ==
  /\ At(t, "L74")
  /\ stack' = SetTop(t, [Top(t) EXCEPT !.pc =
                 IF has_throttle[Host(t)] THEN "L77" ELSE "L75"])
  /\ UNCHANGED <<now, config, has_throttle, registry, heap, call, ncalls, hist>>

\* Line 75: host._throttle = {}
L75(t) ==
  /\ At(t, "L75")
  /\ has_throttle' = [has_throttle EXCEPT ![Host(t)] = TRUE]
  /\ registry' = [registry EXCEPT ![Host(t)] = [d \in Defs |-> 0]]
  /\ stack' = SetTop(t, [Top(t) EXCEPT !.pc = "L77"])
  /\ UNCHANGED <<now, config, heap, call, ncalls, hist>>

\* Line 77: if id(self) not in host._throttle
L77(t) ==
  /\ At(t, "L77")
  /\ stack' = SetTop(t, [Top(t) EXCEPT !.pc =
                 IF registry[Host(t)][Top(t).d] = 0 THEN "L78" ELSE "L79"])
  /\ UNCHANGED <<now, config, has_throttle, registry, heap, call, ncalls, hist>>

\* Line 78: host._throttle[id(self)] = [threading.Lock(), None]
L78(t) ==
  /\ At(t, "L78")
  /\ LET h == Host(t)
         d == Top(t).d IN
     /\ heap' = [heap EXCEPT ![h][d] = Append(@, [lock |-> FALSE, last |-> NoneT])]
     /\ registry' = [registry EXCEPT ![h][d] = Len(heap[h][d]) + 1]
  /\ stack' = SetTop(t, [Top(t) EXCEPT !.pc = "L79"])
  /\ UNCHANGED <<now, config, has_throttle, call, ncalls, hist>>

\* Line 79: throttle = host._throttle[id(self)]; KeyError when another
\* thread's line 75 has emptied the dict since line 77.
L79(t) ==
  /\ At(t, "L79")
  /\ LET e == registry[Host(t)][Top(t).d] IN
     IF e # 0
     THEN /\ stack' = SetTop(t, [Top(t) EXCEPT !.pc = "L81", !.entry = e])
          /\ UNCHANGED <<call, hist>>
     ELSE Return(t, call[t], RaiseKeyError)
  /\ UNCHANGED <<now, config, has_throttle, registry, heap, ncalls>>

\* Mutant: the result of acquire(False) not tested.
AcquireAlways(locked, nt) == TRUE

\* Mutant: no_throttle looked at before the lock, so a forced call goes on
\* without it.
AcquireForced(locked, nt) == ~locked \/ nt

\* Line 81: throttle[0].acquire(False) succeeds when the lock is free and
\* fails at once when it is held; no_throttle is not read before line 85.
Acquire(locked, nt) == ~locked

\* Lines 81-82: if not throttle[0].acquire(False): return throttled_value()
L81(t) ==
  /\ At(t, "L81")
  /\ IF Acquire(Entry(t).lock, Top(t).nt)
     THEN /\ heap' = [heap EXCEPT ![Host(t)][Top(t).d][Top(t).entry].lock = TRUE]
          /\ stack' = SetTop(t, [Top(t) EXCEPT !.pc = "L85"])
          /\ call' = [call EXCEPT ![t] =
               IF Top(t).d = "P"
               THEN [@ EXCEPT !.acquired = TRUE, !.entry = Top(t).entry,
                              !.before = Entry(t).last]
               ELSE @]
          /\ UNCHANGED hist
     ELSE /\ Return(t, call[t], throttled_value)
          /\ UNCHANGED heap
  /\ UNCHANGED <<now, config, has_throttle, registry, ncalls>>

\* Mutant: "or not throttle[1]" forgotten.
ForceFlagOnly(nt, last) == nt

\* Line 85: force = kwargs.pop('no_throttle', False) or not throttle[1]
Force(nt, last) == nt \/ last = NoneT

\* Mutant: the comparison turned round.
AllowedReversed(force, last, d) == force \/ now - last < MinTimeOf(d)

\* Mutant: the elapsed time never lets a call through.
AllowedForceOnly(force, last, d) == force

\* Line 88: force or datetime.now() - throttle[1] > self.min_time
Allowed(force, last, d) == force \/ now - last > MinTimeOf(d)

\* Lines 85-93 up to the call of method or to return throttled_value().
L85(t) ==
  /\ At(t, "L85")
  /\ LET f == Top(t)
         last == Entry(t).last IN
     /\ stack' = SetTop(t,
          IF Allowed(Force(f.nt, last), last, f.d)
          THEN [f EXCEPT !.pc = "L89"]
          ELSE [f EXCEPT !.pc = "L95", !.res = throttled_value])
     /\ call' = [call EXCEPT ![t].gate[f.d] =
          IF last = NoneT THEN "fresh"
          ELSE IF now - last > MinTimeOf(f.d) THEN "open" ELSE "shut"]
  /\ UNCHANGED <<now, config, has_throttle, registry, heap, ncalls, hist>>

\* Line 45: with limit_no_throttle the method the wrapper of "P" calls is
\* the wrapper of Throttle(limit_no_throttle).
Nested(d) == d = "P" /\ limit_no_throttle # NoneT

\* Mutant: no_throttle read with kwargs.get, so it stays in kwargs.
KwargsKept(nt) == nt

\* Line 85 pops no_throttle from kwargs, so the nested wrapper never gets it.
KwargsPassed(nt) == FALSE

\* Line 89: result = method(*args, **kwargs)
L89(t) ==
  /\ At(t, "L89")
  /\ LET f == Top(t) IN
     IF Nested(f.d)
     THEN /\ stack' = [stack EXCEPT ![t] =
                Append(SetTop(t, [f EXCEPT !.pc = "L89r"])[t],
                       WrapperFrame("S", KwargsPassed(f.nt)))]
          /\ UNCHANGED call
     ELSE /\ call' = [call EXCEPT ![t].ran = TRUE]
          /\ stack' = IF is_async
                THEN SetTop(t, [f EXCEPT !.pc = "L90", !.res = CoroReal])
                ELSE [stack EXCEPT ![t] =
                        Append(SetTop(t, [f EXCEPT !.pc = "L89r"])[t],
                               BodyFrame("method"))]
  /\ UNCHANGED <<now, config, has_throttle, registry, heap, ncalls, hist>>

InBody(t) == Busy(t) /\ Top(t).kind \in {"method", "coro"}

\* The method's body (or its awaited coroutine) returns its result.
BodyReturn(t) ==
  /\ InBody(t)
  /\ Return(t, [call[t] EXCEPT !.ok = TRUE], Top(t).res)
  /\ UNCHANGED <<now, config, has_throttle, registry, heap, ncalls>>

\* The method's body (or its awaited coroutine) raises.
BodyRaise(t) ==
  /\ InBody(t)
  /\ Return(t, call[t], RaiseMethod)
  /\ UNCHANGED <<now, config, has_throttle, registry, heap, ncalls>>

\* The frames of t that are bodies of the method.
Bodies(t) == {k \in 1..Len(stack[t]) : stack[t][k].kind = "method"}

\* The body of a synchronous method, running under lines 89 of the wrappers
\* around it, calls the wrapped operation on its own receiver, with or
\* without no_throttle=True; the body has not done so before and is not
\* itself run by such a call.
Reenter(t, nt) ==
  /\ Busy(t) /\ Top(t).kind = "method" /\ Top(t).pc = "body"
  /\ Cardinality(Bodies(t)) = 1
  /\ stack' = [stack EXCEPT ![t] =
                 Append(SetTop(t, [Top(t) EXCEPT !.pc = "inner"])[t],
                        WrapperFrame("P", nt))]
  /\ call' = [call EXCEPT ![t].innerNt = nt]
  /\ UNCHANGED <<now, config, has_throttle, registry, heap, ncalls, hist>>

\* Mutant: the time taken when the call came in, before the method ran.
StampAtStart(t) == call[t].start

\* Mutant: a forced call leaves the timestamp as it found it.
StampUnlessForced(t) == IF Top(t).nt THEN Entry(t).last ELSE now

\* Line 90: datetime.now(), read once the method has returned.
Stamp(t) == now

\* Line 90: throttle[1] = datetime.now()
L90(t) ==
  /\ At(t, "L90")
  /\ heap' = [heap EXCEPT ![Host(t)][Top(t).d][Top(t).entry].last = Stamp(t)]
  /\ stack' = SetTop(t, [Top(t) EXCEPT !.pc = "L95"])
  /\ UNCHANGED <<now, config, has_throttle, registry, call, ncalls, hist>>

\* Mutant: the release written after the try block instead of in a finally,
\* so that an exception passes it by.
HeldAfterRaise(res) == res.tag = "raise"

\* Lines 94-95: whether the lock is still held once the try block has been
\* left with `res`; the finally releases it whatever `res` is.
HeldAfterExit(res) == FALSE

\* Lines 91-95: finally: throttle[0].release(), then the return or the
\* exception leaves the wrapper.
L95(t) ==
  /\ At(t, "L95")
  /\ heap' = [heap EXCEPT ![Host(t)][Top(t).d][Top(t).entry].lock =
                 HeldAfterExit(Top(t).res)]
  /\ Return(t, call[t], Top(t).res)
  /\ UNCHANGED <<now, config, has_throttle, registry, ncalls>>

\* Time passes.
Tick ==
  /\ now < MaxTime
  /\ now' = now + 1
  /\ UNCHANGED <<config, has_throttle, registry, heap, stack, call, ncalls, hist>>

Step(t) ==
  \/ L74(t) \/ L75(t) \/ L77(t) \/ L78(t) \/ L79(t) \/ L81(t) \/ L85(t)
  \/ L89(t) \/ BodyReturn(t) \/ BodyRaise(t) \/ L90(t) \/ L95(t)

\* Two threads call the wrapped operation on two entities.
Next ==
  \/ Tick
  \/ \E t \in Threads, h \in Hosts, nt \in BOOLEAN : Call(t, h, nt)
  \/ \E t \in Threads : Step(t)

Spec == Init /\ [][Next]_vars

\* One thread: every call returns before the next is made.
NextSeq ==
  \/ Tick
  \/ \E h \in Hosts, nt \in BOOLEAN : Call(1, h, nt)
  \/ Step(1)

SpecSeq == InitSeq /\ [][NextSeq]_vars

\* One thread, and a method that may call the wrapped operation itself.
NextReentrant ==
  \/ NextSeq
  \/ \E nt \in BOOLEAN : Reenter(1, nt)

SpecReentrant == InitSeq /\ [][NextReentrant]_vars

\* The scenario of min_time = 2 s, in tenths of a second: thread 1 calls at
\* 0; thread 2 calls at 0.5 s, while thread 1 is inside the method, then at
\* 1 s and at 2.1 s. All calls are on entity 1, without no_throttle.
ScenTimes == <<0, 5, 10, 21>>
ScenThread == <<1, 2, 2, 2>>

InitScenario ==
  /\ min_time = 20
  /\ limit_no_throttle = NoneT
  /\ is_async = FALSE
  /\ InitState

ScenCall(t) ==
  /\ ncalls < Len(ScenTimes)
  /\ ScenThread[ncalls + 1] = t
  /\ now = ScenTimes[ncalls + 1]
  /\ ncalls = 1 => InBody(1)
  /\ DoCall(t, 1, FALSE)

ScenTick ==
  /\ now < ScenTimes[Len(ScenTimes)]
  /\ now' = now + 1
  /\ UNCHANGED <<config, has_throttle, registry, heap, stack, call, ncalls, hist>>

NextScenario ==
  \/ ScenTick
  \/ \E t \in Threads : ScenCall(t)
  \/ \E t \in Threads : Step(t)

SpecScenario == InitScenario /\ [][NextScenario]_vars

\* ---------------------------------------------------------------- claims
\* A call of t has returned.
Returned(t) == call[t].done /\ call[t].out # NoRes

\* The call of t returned the throttled sentinel without calling the method.
Throttled(t) == ~call[t].ran /\ call[t].out = RetNone

\* The call of t called the method and handed on what the method produced.
RanForReal(t) ==
  /\ call[t].ran
  /\ call[t].out = IF call[t].ok THEN RetVal ELSE RaiseMethod

\* C1, as stated: a call without no_throttle that returns less than min_time
\* after the start of the previous call that called the method (whether the
\* method returned or raised) is throttled.
C1_Original ==
  \A t \in Threads :
    (/\ Returned(t) /\ ~call[t].nt
     /\ call[t].prev.lastRun # NoneT
     /\ now - call[t].prev.lastRun < min_time) => Throttled(t)

\* C1, amended: a call without no_throttle that returns less than min_time
\* after the start of the previous call whose method returned without
\* raising does not call the method and returns None.
C1_Throttled ==
  \A t \in Threads :
    (/\ Returned(t) /\ ~call[t].nt
     /\ call[t].prev.lastOk # NoneT
     /\ now - call[t].prev.lastOk < min_time) => Throttled(t)

C1_Witness ==
  \E t \in Threads :
    /\ Returned(t) /\ ~call[t].nt /\ Throttled(t)
    /\ call[t].gate["P"] = "shut"
    /\ call[t].prev.lastOk # NoneT
    /\ now - call[t].prev.lastOk < min_time

\* C2, as stated: of two sequential calls without no_throttle, the second
\* made at least min_time after the first returned, the first having called
\* the method, both call the method and return what it produced.
C2_Original ==
  \A t \in Threads :
    (/\ Returned(t) /\ ~call[t].nt
     /\ call[t].prev.lastRun # NoneT
     /\ call[t].start - call[t].prev.lastEnd >= min_time) => RanForReal(t)

\* C2, amended: a call without no_throttle made more than min_time (and,
\* with limit_no_throttle, more than limit_no_throttle) after the previous
\* call on the entity returned calls the method and returns what it produced.
C2_Spaced ==
  \A t \in Threads :
    (/\ Returned(t) /\ ~call[t].nt
     /\ call[t].prev.lastEnd # NoneT
     /\ call[t].start - call[t].prev.lastEnd > min_time
     /\ call[t].start - call[t].prev.lastEnd > limit_no_throttle)
    => RanForReal(t)

C2_Witness ==
  \E t \in Threads :
    /\ Returned(t) /\ ~call[t].nt /\ call[t].out = RetVal
    /\ call[t].gate["P"] = "open"
    /\ call[t].prev.lastOk # NoneT
    /\ call[t].start - call[t].prev.lastEnd > min_time

\* No lock of the entity h is held.
LocksFree(h) ==
  \A d \in Defs : \A i \in 1..Len(heap[h][d]) : ~heap[h][d][i].lock

\* C3: when two threads call the wrapped operation on one entity at the same
\* instant, without no_throttle, and both calls have returned the method's
\* result or None, exactly
\* one has called the method, the other has returned the throttled
\* sentinel, and no lock of the entity is held.
C3_Claim ==
  (/\ now = 0
   /\ Returned(1) /\ Returned(2)
   /\ call[1].h = call[2].h
   /\ ~call[1].nt /\ ~call[2].nt
   /\ call[1].out.tag # "raise" /\ call[2].out.tag # "raise")
  => /\ \/ call[1].ran /\ Throttled(2)
        \/ call[2].ran /\ Throttled(1)
     /\ LocksFree(Host(1))

\* C4: a call with no_throttle=True that acquired the lock calls the method
\* whatever the primary timestamp is when no limit_no_throttle is given;
\* with limit_no_throttle it calls the method only if the secondary entry
\* had no timestamp or one more than limit_no_throttle old, and returns the
\* throttled sentinel when the secondary timestamp is younger.
C4_Forced ==
  \A t \in Threads :
    (Returned(t) /\ call[t].nt /\ call[t].acquired) =>
      /\ limit_no_throttle = NoneT => call[t].ran
      /\ (limit_no_throttle # NoneT /\ call[t].ran)
           => call[t].gate["S"] \in {"fresh", "open"}
      /\ call[t].gate["S"] = "shut" => Throttled(t)

C4_Witness ==
  \E t \in Threads :
    /\ Returned(t) /\ call[t].nt /\ call[t].acquired
    /\ call[t].gate["P"] = "shut"
    /\ \/ limit_no_throttle = NoneT /\ call[t].out = RetVal
       \/ call[t].gate["S"] = "shut" /\ Throttled(t)

\* C5: when the method raises, the caller gets the method's exception and
\* last_success of the entry is what it was before the call.
C5_Claim ==
  \A t \in Threads :
    (Returned(t) /\ call[t].ran /\ ~call[t].ok) =>
      /\ call[t].out = RaiseMethod
      /\ heap[Host(t)]["P"][call[t].entry].last = call[t].before

\* C6: for an async method, the bodies of two invocations on one entity,
\* both gone through the one primary entry the entity has ever had, are
\* never in progress at the same time.
C6_Claim ==
  \A t1, t2 \in Threads :
    (/\ is_async /\ t1 # t2
     /\ Host(t1) = Host(t2)
     /\ Len(heap[Host(t1)]["P"]) = 1
     /\ InBody(t1))
    => ~InBody(t2)

\* C7, as stated, its last call: when the first call has returned the
\* method's result, the call at 2.1 s calls the method and returns its
\* result.
C7_Original ==
  (ncalls = 4 /\ Returned(2) /\ Returned(1) /\ call[1].out = RetVal)
    => call[2].ran /\ call[2].out = RetVal

\* C7, amended: the call at 0 calls the method; the calls at 0.5 s and at
\* 1 s return the throttled sentinel unless the first call's method has
\* raised, the one at 0.5 s without the lock if it returns while the first
\* is still inside the method; and, the first call having returned the
\* method's result, the call at 2.1 s returns the throttled sentinel too,
\* last_success being 0.5 s or later.
C7_Scenario ==
  /\ Returned(1) => RanForReal(1)
  /\ (ncalls \in {2, 3} /\ Returned(2) /\ call[1].out # RaiseMethod)
       => Throttled(2)
  /\ (ncalls = 2 /\ Returned(2) /\ InBody(1)) => ~call[2].acquired
  /\ (ncalls = 4 /\ Returned(2) /\ Returned(1) /\ call[1].out = RetVal)
       => /\ Throttled(2)
          /\ heap[1]["P"][call[1].entry].last >= 5

C7_Witness ==
  /\ ncalls = 4 /\ Returned(2) /\ Returned(1)
  /\ call[1].out = RetVal
  /\ call[2].start = 21 /\ call[2].gate["P"] = "shut" /\ Throttled(2)

\* C8: a step of a call on one entity leaves the registry, the locks and the
\* timestamps of every other entity unchanged, and a call returns the
\* throttled sentinel for want of the lock only while another call on its
\* own entity is in progress.
C8_Independent ==
  [][\A t \in Threads :
       /\ stack'[t] # stack[t] =>
            \A h \in Hosts \ {call'[t].h} :
              /\ has_throttle'[h] = has_throttle[h]
              /\ registry'[h] = registry[h]
              /\ heap'[h] = heap[h]
       /\ (~call[t].done /\ call'[t].done /\ ~call'[t].acquired
           /\ call'[t].out = RetNone) =>
            \E u \in Threads \ {t} : ~call[u].done /\ call[u].h = call[t].h
    ]_vars

C8_Witness ==
  \E t, u \in Threads :
    /\ call[t].h = 1 /\ call[u].h = 2
    /\ InBody(t) /\ InBody(u) /\ ~is_async
    /\ heap[1]["P"][call[t].entry].lock
    /\ heap[2]["P"][call[u].entry].lock

\* C9, as stated: a call without no_throttle that finds the primary
\* timestamp more than min_time old calls the method, whatever
\* limit_no_throttle and the secondary entry are.
C9_Original ==
  \A t \in Threads :
    (Returned(t) /\ ~call[t].nt /\ call[t].gate["P"] = "open")
      => RanForReal(t)

\* C9, amended: a call without no_throttle that finds the primary timestamp
\* more than min_time old goes through the secondary wrapper too: it calls
\* the method if the secondary timestamp is absent or more than
\* limit_no_throttle old, which is always so when limit_no_throttle is at
\* most min_time, and is throttled otherwise.
C9_Secondary ==
  \A t \in Threads :
    (Returned(t) /\ ~call[t].nt /\ call[t].gate["P"] = "open") =>
      /\ call[t].gate["S"] # "shut" => RanForReal(t)
      /\ limit_no_throttle <= min_time => RanForReal(t)
      /\ call[t].gate["S"] = "shut" => Throttled(t)

C9_Witness ==
  \E t \in Threads :
    /\ Returned(t) /\ ~call[t].nt /\ call[t].gate["P"] = "open"
    /\ call[t].gate["S"] = "open" /\ call[t].out = RetVal

\* C10: a call that finds no timestamp in the primary entry (none created
\* yet, or last_success still None) calls the method and returns what it
\* produced, for every min_time and limit_no_throttle.
C10_FirstCall ==
  \A t \in Threads :
    (Returned(t) /\ call[t].gate["P"] = "fresh") => RanForReal(t)

C10_Witness ==
  \E t \in Threads :
    /\ Returned(t) /\ call[t].gate["P"] = "fresh" /\ ~call[t].nt
    /\ call[t].prev.lastRun # NoneT /\ call[t].out = RetVal

\* C11: once a call has called the method and the method has returned, the
\* wrapped operation has a `last_call` attribute (holding the time of that
\* call, which throttled calls leave as it is).
C11_Claim ==
  \A t \in Threads :
    (Returned(t) /\ call[t].ran /\ call[t].ok) => "last_call" \in WrapperAttrs

\* The entry the registry of h holds for d.
Current(h, d) == heap[h][d][registry[h][d]]

\* C12: between calls, last_success of every entry is None exactly when no
\* call on its entity has had the method return, and after a call whose
\* method returned it is a time within that call; a call that returns the
\* throttled sentinel leaves last_success of the entry it locked as it
\* found it.
C12_Claim ==
  /\ \A h \in Hosts, d \in Defs :
       ((\A t \in Threads : ~Busy(t)) /\ registry[h][d] # 0) =>
         /\ Current(h, d).last = NoneT <=> hist[h].lastOk = NoneT
         /\ Current(h, d).last # NoneT =>
              /\ Current(h, d).last >= hist[h].lastOk
              /\ Current(h, d).last <= hist[h].lastEnd
  /\ \A t \in Threads :
       (Returned(t) /\ call[t].ran /\ call[t].ok) =>
         /\ heap[Host(t)]["P"][call[t].entry].last >= call[t].start
         /\ heap[Host(t)]["P"][call[t].entry].last <= hist[Host(t)].lastEnd
  /\ \A t \in Threads :
       (Returned(t) /\ Throttled(t) /\ call[t].acquired) =>
         heap[Host(t)]["P"][call[t].entry].last = call[t].before

\* The frames of t that hold the lock of the entry i of (h, d): past the
\* acquire of line 81 and not yet through the release of line 95.
Holding(t, h, d, i) ==
  {k \in 1..Len(stack[t]) :
     /\ stack[t][k].kind = "wrapper"
     /\ Host(t) = h /\ stack[t][k].d = d /\ stack[t][k].entry = i
     /\ stack[t][k].pc \in {"L85", "L89", "L89r", "L90", "L95"}}

\* C13: an entity never gets a second [lock, last_success] list for one
\* definition, whatever the interleaving of first calls, and no two calls
\* hold different locks for the same entity and definition.
C13_Claim ==
  /\ \A h \in Hosts, d \in Defs : Len(heap[h][d]) <= 1
  /\ \A h \in Hosts, d \in Defs, t, u \in Threads :
       \A i \in 1..Len(heap[h][d]), j \in 1..Len(heap[h][d]) :
         (Holding(t, h, d, i) # {} /\ Holding(u, h, d, j) # {}) => i = j

\* C14: the lock of an entry is held exactly while one call is between the
\* acquire of line 81 and the release of line 95, whichever way the call
\* leaves (method returned, throttled by timing, method raised); so a call
\* that reaches line 81 while no call is inside the guarded section of its
\* entry finds the lock free, also after a call whose method raised.
C14_Released ==
  /\ \A h \in Hosts, d \in Defs :
       \A i \in 1..Len(heap[h][d]) :
         /\ heap[h][d][i].lock <=> \E t \in Threads : Holding(t, h, d, i) # {}
         /\ \A t, u \in Threads :
              (t # u /\ Holding(t, h, d, i) # {}) => Holding(u, h, d, i) = {}
         /\ \A t \in Threads : Cardinality(Holding(t, h, d, i)) <= 1
  /\ \A t \in Threads :
       (/\ At(t, "L81")
        /\ \A u \in Threads :
             Holding(u, Host(t), Top(t).d, Top(t).entry) = {})
       => ~Entry(t).lock

\* After a call whose synchronous method raised, a later call acquires the
\* lock and returns the method's result, and no lock is left held.
C14_Witness ==
  \E t \in Threads :
    /\ ~is_async /\ Returned(t) /\ call[t].acquired /\ call[t].out = RetVal
    /\ call[t].prev.lastRun # NoneT /\ call[t].prev.lastOk = NoneT
    /\ Len(heap[Host(t)]["P"]) = 1
    /\ LocksFree(Host(t))

\* C15: the step of a call that finds the lock of its entry held, with or
\* without no_throttle, leaves every lock and every last_success as they
\* are, ends the wrapper there and then, and does not call the method; when
\* it is the lock of the primary entry, the call returns the throttled
\* sentinel without having called the method.
C15_Contended ==
  [][\A t \in Threads :
       (At(t, "L81") /\ Entry(t).lock /\ stack'[t] # stack[t]) =>
         /\ heap' = heap
         /\ registry' = registry
         /\ Len(stack'[t]) = Len(stack[t]) - 1
         /\ call'[t].ran = call[t].ran
         /\ Len(stack[t]) = 1 =>
              /\ call'[t].done /\ ~call'[t].acquired
              /\ ~call'[t].ran /\ call'[t].out = RetNone
    ]_vars

\* A call with no_throttle=True has returned the throttled sentinel for want
\* of the lock, which another call, inside the method, still holds.
C15_Witness ==
  \E t, u \in Threads :
    /\ t # u /\ Host(t) = Host(u) /\ ~is_async
    /\ Returned(t) /\ call[t].nt /\ ~call[t].acquired /\ Throttled(t)
    /\ InBody(u) /\ Len(heap[Host(u)]["P"]) = 1
    /\ Holding(u, Host(u), "P", 1) # {}

C17_Reentrant ==
  \A t \in Threads :
    /\ Cardinality(Bodies(t)) <= 1
    /\ Busy(t) => ENABLED Step(t)
    /\ call[t].inner \in {NoRes, RetNone}
    /\ (Busy(t) /\ Top(t).kind = "method" /\ Top(t).pc = "back")
         => call[t].inner = RetNone
    /\ (Returned(t) /\ call[t].inner # NoRes) =>
         /\ LocksFree(Host(t))
         /\ call[t].out = IF call[t].ok THEN RetVal ELSE RaiseMethod
         /\ call[t].ok =>
              \A d \in Defs :
                registry[Host(t)][d] # 0 =>
                  Current(Host(t), d).last >= call[t].start

\* A call made with no_throttle=True by the method has handed None back to
\* it, and the outer call has returned the method's result.
C17_Witness ==
  \E t \in Threads :
    /\ Returned(t) /\ call[t].innerNt /\ call[t].inner = RetNone
    /\ call[t].ok /\ call[t].out = RetVal
    /\ call[t].gate["P"] = "open" /\ limit_no_throttle # NoneT
    /\ Current(Host(t), "P").last >= call[t].start
====
